---- MODULE Spec2Model ----
(***************************************************************************)
(* The data-shaping pipeline of the notebook                               *)
(* recipes/Time_Series/Getting_Started_with_WatsonX_AI_SDK.ipynb:          *)
(*   load hour.csv and repair its timestamps, cut context / future windows *)
(*   at the start offsets, build the forecast parameters, call the         *)
(*   forecasting service, and line the forecast up with the ground truth.  *)
(* One action per notebook cell.  A cell that raises stops the run.        *)
(* The matplotlib calls of the last cell (plt.subplots, axs[i].plot) are   *)
(* rendering and are not modelled; the series handed to them are.          *)
(*                                                                         *)
(* A DataFrame is a sequence of rows, a row a function from column names   *)
(* to values.  A pandas Timestamp is a number of hours since the first     *)
(* day of the file; its ISO 8601 string is the pair <<day, hour>>, whose   *)
(* lexicographic order is the order of the strings.                        *)
(***************************************************************************)
EXTENDS Integers, Sequences, FiniteSets, TLC

VARIABLES
    pc,                 \* the cell the run executes next, "done" or "failed"
    error,              \* the exception that stopped the run, or "none"
    csv,                \* the file at DATA_FILE_PATH: [columns, rows]
    start_index,        \* the start offsets
    context_length,
    prediction_length,
    input_df,           \* the loaded series
    context_windows,    \* the list input_data holds before pd.concat
    future_windows,     \* the list ground_truth_data holds before pd.concat
    input_data,         \* the combined context table
    ground_truth_data,  \* the combined future table
    forecasting_params,
    calls,              \* calls made to the forecasting service in this run
    df_out,             \* the forecast rows
    aligned             \* per group name: the series the last cell plots

vars == <<pc, error, csv, start_index, context_length, prediction_length,
          input_df, context_windows, future_windows, input_data,
          ground_truth_data, forecasting_params, calls, df_out, aligned>>

----------------------------------------------------------------------------
(* Bounds of the model *)

MaxRows == 4

MaxOffsets == 2

MaxLength == 2

history == 1

HoursPerDay == 24

timestamp_column == "dteday"

target_columns == <<"casual", "registered">>

id_column == "id"

Min(a, b) == IF a < b THEN a ELSE b

Max(a, b) == IF a < b THEN b ELSE a

\* Sequences over S of length at most n.
SeqsUpTo(S, n) == UNION {[1..k -> S] : k \in 0..n}

----------------------------------------------------------------------------
(* The input file *)

\* Rows of hour.csv: one row per recorded hour, in calendar order; hours
\* without rentals are missing from the file.
Calendar ==
    << [dteday |-> 0, hr |-> 0,  casual |-> 3,  registered |-> 13],
       [dteday |-> 0, hr |-> 1,  casual |-> 8,  registered |-> 32],
       [dteday |-> 0, hr |-> 23, casual |-> 15, registered |-> 24],
       [dteday |-> 1, hr |-> 0,  casual |-> 4,  registered |-> 13],
       [dteday |-> 1, hr |-> 1,  casual |-> 1,  registered |-> 16] >>

RECURSIVE Pick(_, _, _)
\* The rows of s at the positions in keep, in the order of s.
Pick(s, keep, k) ==
    IF k > Len(s) THEN <<>>
    ELSE (IF k \in keep THEN <<s[k]>> ELSE <<>>) \o Pick(s, keep, k + 1)

AllColumns == {"dteday", "hr", "casual", "registered"}

\* Well-formed files: any hours of the calendar, at most MaxRows of them.
GoodFiles ==
    { [columns |-> AllColumns, rows |-> Pick(Calendar, keep, 1)] :
        keep \in {K \in SUBSET (1..Len(Calendar)) : Cardinality(K) <= MaxRows} }

\* Files that lack a column the loader reads.
BadFiles ==
    { [columns |-> AllColumns \ {c}, rows |-> <<>>] : c \in {"dteday", "hr"} }

----------------------------------------------------------------------------
(* Timestamps *)

\* parse_dates: a calendar date becomes the Timestamp of its midnight.
ParseDate(d) == d * HoursPerDay

\* Mutant of RepairTimestamp: the hour of day is not added.
RepairTimestampDateOnly(ts, hr) == ts

\* ts + pd.Timedelta(x, unit="hr")
RepairTimestamp(ts, hr) == ts + hr

\* Timestamp.isoformat(): "YYYY-MM-DDTHH:00:00"
IsoFormat(ts) == <<ts \div HoursPerDay, ts % HoursPerDay>>

\* pd.to_datetime of an ISO string
ToDatetime(iso) == iso[1] * HoursPerDay + iso[2]

\* The series of the file: dates parsed, hours added, instants formatted.
LoadSeries(file) ==
    [k \in 1..Len(file.rows) |->
        LET row == file.rows[k]
        IN  [row EXCEPT !.dteday =
                IsoFormat(RepairTimestamp(ParseDate(row.dteday), row.hr))]]

----------------------------------------------------------------------------
(* DataFrame operations *)

\* Position of a slice bound in a frame of n rows (Python slice semantics:
\* a negative bound counts from the end, every bound is clamped to 0..n).
SliceBound(n, x) == IF x < 0 THEN Max(n + x, 0) ELSE Min(x, n)

\* df.iloc[a : b, :]
ILoc(df, a, b) ==
    SubSeq(df, SliceBound(Len(df), a) + 1, SliceBound(Len(df), b))

\* s.iloc[a:]
ILocFrom(s, a) == SubSeq(s, SliceBound(Len(s), a) + 1, Len(s))

\* f"id_{i}"
IdOf(i) == <<"id_", i>>

\* df[col] = v
SetColumn(df, col, v) == [k \in 1..Len(df) |-> (col :> v) @@ df[k]]

\* df[col]
Column(df, col) == [k \in 1..Len(df) |-> df[k][col]]

RECURSIVE Filter(_, _, _)
\* df[df[col] == v]
Filter(df, col, v) ==
    IF df = <<>> THEN <<>>
    ELSE (IF Head(df)[col] = v THEN <<Head(df)>> ELSE <<>>)
            \o Filter(Tail(df), col, v)

\* The group keys of df.groupby(col)
GroupNames(df, col) == {df[k][col] : k \in 1..Len(df)}

RECURSIVE ConcatReversed(_)
\* Mutant of Concat: the frames are joined last to first.
ConcatReversed(frames) ==
    IF frames = <<>> THEN <<>>
    ELSE ConcatReversed(Tail(frames)) \o Head(frames)

RECURSIVE Concat(_)
\* pd.concat(frames), for a non-empty list
Concat(frames) ==
    IF frames = <<>> THEN <<>> ELSE Head(frames) \o Concat(Tail(frames))

----------------------------------------------------------------------------
(* Window extraction *)

\* Mutant of ContextBounds: the slice takes one row too many.
ContextBoundsInclusive(i, cl) == <<i, i + cl + 1>>

\* i : i + context_length
ContextBounds(i, cl) == <<i, i + cl>>

\* i + context_length : i + context_length + prediction_length
FutureBounds(i, cl, pl) == <<i + cl, i + cl + pl>>

\* Mutant of CopyAndTag: no copy, the identifier is written into the sliced
\* rows of the source frame as well.
TagInPlace(df, b, id) ==
    [window |-> SetColumn(ILoc(df, b[1], b[2]), id_column, id),
     source |-> [k \in 1..Len(df) |->
                   IF /\ SliceBound(Len(df), b[1]) < k
                      /\ k <= SliceBound(Len(df), b[2])
                     THEN (id_column :> id) @@ df[k]
                     ELSE df[k]]]

\* df.iloc[b[1] : b[2], :].copy() followed by df[id_column] = id.
\* window is the tagged copy, source the frame that was sliced.
CopyAndTag(df, b, id) ==
    [window |-> SetColumn(ILoc(df, b[1], b[2]), id_column, id),
     source |-> df]

RECURSIVE ExtractLoop(_, _, _, _, _)
\* The loop over start_index from its k-th offset on; st holds the series
\* and the two lists built so far.
ExtractLoop(st, offs, cl, pl, k) ==
    IF k > Len(offs) THEN st
    ELSE LET i == offs[k]
             c == CopyAndTag(st.df, ContextBounds(i, cl), IdOf(i))
             f == CopyAndTag(c.source, FutureBounds(i, cl, pl), IdOf(i))
         IN  ExtractLoop([df  |-> f.source,
                          ctx |-> Append(st.ctx, c.window),
                          fut |-> Append(st.fut, f.window)],
                         offs, cl, pl, k + 1)

----------------------------------------------------------------------------
(* The forecasting service: an opaque function of the request.  It answers  *)
(* for some of the requested identifiers, prediction_length rows each, at   *)
(* the timestamps that follow the identifier's last context row.            *)

\* The level of the predicted values (what the model answers is not modelled).
PredValues == {9}

RECURSIVE IdOrder(_, _)
\* The identifiers of df in the order of their first row.
IdOrder(df, seen) ==
    IF df = <<>> THEN <<>>
    ELSE IF Head(df)[id_column] \in seen THEN IdOrder(Tail(df), seen)
    ELSE <<Head(df)[id_column]>>
            \o IdOrder(Tail(df), seen \cup {Head(df)[id_column]})

ForecastRows(data, params, g, v) ==
    LET grp  == Filter(data, id_column, g)
        last == ToDatetime(grp[Len(grp)][params.timestamp_column])
    IN  [h \in 1..params.prediction_length |->
            [id |-> g, dteday |-> IsoFormat(last + h),
             casual |-> v + h, registered |-> v - h]]

RECURSIVE ResponseRows(_, _, _, _, _)
ResponseRows(data, params, order, S, v) ==
    IF order = <<>> THEN <<>>
    ELSE (IF Head(order) \in S
            THEN ForecastRows(data, params, Head(order), v) ELSE <<>>)
            \o ResponseRows(data, params, Tail(order), S, v)

ForecastResponses(data, params) ==
    { ResponseRows(data, params, IdOrder(data, {}), S, v) :
        S \in SUBSET GroupNames(data, id_column), v \in PredValues }

----------------------------------------------------------------------------
(* Alignment of forecast and ground truth *)

\* Mutant of AlignedNames: only the identifiers the forecast covers.
AlignedNamesInBoth(data, out) ==
    GroupNames(data, id_column) \cap GroupNames(out, id_column)

\* The groups the last cell iterates over: input_data.groupby(id_column)
AlignedNames(data, out) == GroupNames(data, id_column)

\* grp[col].iloc[-history:]
HistoryTail(s, h) == ILocFrom(s, -h)

\* Mutant of Prediction: the forecast rows are not filtered by identifier.
PredictionUnfiltered(out, name) == out

\* df_out[df_out[id_column] == grp_name]
Prediction(out, name) == Filter(out, id_column, name)

\* One pass of the loop body for the group grp_name.
AlignGroup(data, truth, out, name) ==
    LET grp  == Filter(data, id_column, name)
        gt   == Filter(truth, id_column, name)
        pred == Prediction(out, name)
        ts   == HistoryTail(Column(grp, timestamp_column), history)
                    \o Column(gt, timestamp_column)
        pts  == Column(pred, timestamp_column)
    IN  [gt_dt    |-> [k \in 1..Len(ts) |-> ToDatetime(ts[k])],
         gt_val   |-> HistoryTail(Column(grp, target_columns[1]), history)
                        \o Column(gt, target_columns[1]),
         pred_dt  |-> [k \in 1..Len(pts) |-> ToDatetime(pts[k])],
         pred_val |-> Column(pred, target_columns[1])]

----------------------------------------------------------------------------
(* The run *)

\* The offsets tried: before the series, inside it, and too near its end.
Offsets == {0 - 2} \cup 0..(MaxRows - 1)

NoParams == [prediction_length |-> 0]

Init ==
    /\ pc = "load"
    /\ error = "none"
    /\ csv \in GoodFiles \cup BadFiles
    /\ start_index \in SeqsUpTo(Offsets, MaxOffsets)
    /\ context_length \in 1..MaxLength
    /\ prediction_length \in 1..MaxLength
    /\ input_df = <<>>
    /\ context_windows = <<>>
    /\ future_windows = <<>>
    /\ input_data = <<>>
    /\ ground_truth_data = <<>>
    /\ forecasting_params = NoParams
    /\ calls = 0
    /\ df_out = <<>>
    /\ aligned = <<>>

Fail(e) == pc' = "failed" /\ error' = e

\* pd.read_csv(..., parse_dates=[timestamp_column]), the hour repair and
\* the ISO formatting.  A file without the date or the hour column raises.
LoadCell ==
    /\ pc = "load"
    /\ IF {timestamp_column, "hr"} \subseteq csv.columns
         THEN /\ input_df' = LoadSeries(csv)
              /\ pc' = "extract"
              /\ error' = error
         ELSE /\ Fail("DataFormatError")
              /\ input_df' = input_df
    /\ UNCHANGED <<csv, start_index, context_length, prediction_length,
                   context_windows, future_windows, input_data,
                   ground_truth_data, forecasting_params, calls, df_out,
                   aligned>>

\* The window extraction cell.  pd.concat of an empty list raises.
ExtractBody ==
    LET r == ExtractLoop([df |-> input_df, ctx |-> <<>>, fut |-> <<>>],
                         start_index, context_length, prediction_length, 1)
    IN  /\ input_df' = r.df
        /\ context_windows' = r.ctx
        /\ future_windows' = r.fut
        /\ IF r.ctx = <<>>
             THEN /\ Fail("ValueError")
                  /\ UNCHANGED <<input_data, ground_truth_data>>
             ELSE /\ input_data' = Concat(r.ctx)
                  /\ ground_truth_data' = Concat(r.fut)
                  /\ pc' = "build"
                  /\ error' = error
        /\ UNCHANGED <<csv, start_index, context_length, prediction_length,
                       forecasting_params, calls, df_out, aligned>>

ExtractCell == pc = "extract" /\ ExtractBody

\* The extraction cell executed again before the run goes on.
ExtractCellAgain == pc = "build" /\ ExtractBody

\* TSForecastParameters(...)
BuildParamsCell ==
    /\ pc = "build"
    /\ forecasting_params' =
          [id_columns |-> <<id_column>>,
           timestamp_column |-> timestamp_column,
           freq |-> "1h",
           target_columns |-> target_columns,
           prediction_length |-> prediction_length]
    /\ pc' = "forecast"
    /\ UNCHANGED <<error, csv, start_index, context_length, prediction_length,
                   input_df, context_windows, future_windows, input_data,
                   ground_truth_data, calls, df_out, aligned>>

\* ts_model.forecast(...) returns and df_out is built from the result.
ForecastReturns ==
    /\ pc = "forecast"
    /\ calls' = calls + 1
    /\ df_out' \in ForecastResponses(input_data, forecasting_params)
    /\ pc' = "align"
    /\ UNCHANGED <<error, csv, start_index, context_length, prediction_length,
                   input_df, context_windows, future_windows, input_data,
                   ground_truth_data, forecasting_params, aligned>>

\* Mutant of ForecastFails: a failed call is made a second time.
ForecastFailsRetry ==
    /\ pc = "forecast"
    /\ calls < 2
    /\ calls' = calls + 1
    /\ UNCHANGED <<pc, error, csv, start_index, context_length,
                   prediction_length, input_df, context_windows,
                   future_windows, input_data, ground_truth_data,
                   forecasting_params, df_out, aligned>>

\* ts_model.forecast(...) raises: the run stops, nothing calls it again.
ForecastFails ==
    /\ pc = "forecast"
    /\ calls' = calls + 1
    /\ Fail("UpstreamError")
    /\ UNCHANGED <<csv, start_index, context_length, prediction_length,
                   input_df, context_windows, future_windows, input_data,
                   ground_truth_data, forecasting_params, df_out, aligned>>

\* The last cell: per group of input_data, the ground truth and the
\* prediction that are plotted.
AlignCell ==
    /\ pc = "align"
    /\ aligned' = [name \in AlignedNames(input_data, df_out) |->
                      AlignGroup(input_data, ground_truth_data, df_out, name)]
    /\ pc' = "done"
    /\ UNCHANGED <<error, csv, start_index, context_length, prediction_length,
                   input_df, context_windows, future_windows, input_data,
                   ground_truth_data, forecasting_params, calls, df_out>>

Next ==
    \/ LoadCell
    \/ ExtractCell
    \/ ExtractCellAgain
    \/ BuildParamsCell
    \/ ForecastReturns
    \/ ForecastFails
    \/ AlignCell

Spec == Init /\ [][Next]_vars

----------------------------------------------------------------------------
(* Vocabulary of the properties *)

\* Order of two ISO strings (character by character: date first, then hour).
IsoLess(a, b) == a[1] < b[1] \/ (a[1] = b[1] /\ a[2] < b[2])

\* The extraction cell has run to its end in this run.
Extracted ==
    \/ pc \in {"build", "forecast", "align", "done"}
    \/ pc = "failed" /\ error = "UpstreamError"

\* The series has been loaded.
Loaded == pc # "load" /\ error # "DataFormatError"

\* 0 <= o and o + context_length + prediction_length <= len(series)
ValidOffset(o) ==
    0 <= o /\ o + context_length + prediction_length <= Len(input_df)

AllValid == \A p \in DOMAIN start_index : ValidOffset(start_index[p])

PairwiseDistinct ==
    \A p, q \in DOMAIN start_index :
        p # q => start_index[p] # start_index[q]

\* Row r of the series carrying the identifier of offset o.
Tagged(r, o) == (id_column :> IdOf(o)) @@ r

\* w is exactly the n rows series[from .. from+n-1] (0-based), tagged id_<o>.
IsSeriesRun(w, from, n, o) ==
    /\ Len(w) = n
    /\ \A k \in 1..n :
          /\ from + k \in DOMAIN input_df
          /\ w[k] = Tagged(input_df[from + k], o)

\* The rows of table that carry identifier id, in table order.
RowsOf(table, id) == SelectSeq(table, LAMBDA r : r[id_column] = id)

Ids(table) == {table[k][id_column] : k \in DOMAIN table}

StrictlyIncreasing(s) == \A k \in 1..(Len(s) - 1) : s[k] < s[k + 1]

\* The last h rows of w (all of them when w has fewer).
LastRows(w, h) ==
    LET m == Min(h, Len(w)) IN [k \in 1..m |-> w[Len(w) - m + k]]

Instants(rows) ==
    [k \in DOMAIN rows |-> ToDatetime(rows[k][timestamp_column])]

Values(rows) == [k \in DOMAIN rows |-> rows[k][target_columns[1]]]

----------------------------------------------------------------------------
(* C1 *)

\* C1: for every offset o of start_index the context window is exactly the
\* rows series[o .. o+context_length-1], the future window exactly the rows
\* series[o+context_length .. o+context_length+prediction_length-1], in
\* series order with unchanged values, every row tagged id_<o>.
C1_WindowsAreSeriesRows ==
    Extracted =>
        \A p \in DOMAIN start_index :
            LET o == start_index[p]
            IN  /\ IsSeriesRun(context_windows[p], o, context_length, o)
                /\ IsSeriesRun(future_windows[p], o + context_length,
                               prediction_length, o)

\* C1 restricted to the offsets that lie inside the series.
C1_InBounds ==
    Extracted =>
        \A p \in DOMAIN start_index :
            LET o == start_index[p]
            IN  ValidOffset(o) =>
                  /\ IsSeriesRun(context_windows[p], o, context_length, o)
                  /\ IsSeriesRun(future_windows[p], o + context_length,
                                 prediction_length, o)

----------------------------------------------------------------------------
(* C2 *)

\* The WindowSet: one entry per identifier of the combined context table.
WindowSetSizes ==
    /\ Cardinality(Ids(input_data)) = Len(start_index)
    /\ \A id \in Ids(input_data) :
          /\ Len(RowsOf(input_data, id)) = context_length
          /\ Len(RowsOf(ground_truth_data, id)) = prediction_length

\* C2 as stated: for all valid start offsets the WindowSet has
\* len(start_offsets) identifiers, each with context_length context rows and
\* prediction_length future rows.
C2_Original == (Extracted /\ AllValid) => WindowSetSizes

\* C2 amended: the same for valid start offsets that are pairwise distinct.
C2_ValidDistinctSizes ==
    (Extracted /\ AllValid /\ PairwiseDistinct) => WindowSetSizes

C2_Witness ==
    /\ Extracted /\ AllValid /\ PairwiseDistinct
    /\ Len(start_index) = 2
    /\ context_length = 2
    /\ Cardinality(Ids(input_data)) = 2

----------------------------------------------------------------------------
(* C3 *)

\* C3: window extraction fails with RangeError whenever some offset o has
\* o < 0 or o + context_length + prediction_length > len(series), and yields
\* no shortened or empty window then.
C3_RangeError ==
    (Loaded /\ pc # "extract" /\ ~AllValid) =>
        /\ pc = "failed"
        /\ error = "RangeError"
        /\ context_windows = <<>>
        /\ future_windows = <<>>

----------------------------------------------------------------------------
(* C4 *)

\* The aligned series of identifier id are those of the windows ctx and fut
\* and of the forecast rows carrying id, in ascending timestamp order.
AlignedFrom(id, ctx, fut) ==
    /\ id \in DOMAIN aligned
    /\ aligned[id].gt_dt = Instants(LastRows(ctx, history) \o fut)
    /\ aligned[id].gt_val = Values(LastRows(ctx, history) \o fut)
    /\ aligned[id].pred_dt = Instants(RowsOf(df_out, id))
    /\ aligned[id].pred_val = Values(RowsOf(df_out, id))
    /\ StrictlyIncreasing(aligned[id].gt_dt)
    /\ StrictlyIncreasing(aligned[id].pred_dt)

AlignedForAll ==
    \A p \in DOMAIN start_index :
        LET id == IdOf(start_index[p])
        IN  id \in Ids(ground_truth_data) \cap Ids(df_out) =>
                AlignedFrom(id, context_windows[p], future_windows[p])

----------------------------------------------------------------------------
(* C5 *)

----------------------------------------------------------------------------
(* C6 *)

StepOrder ==
    { <<"load", "extract">>, <<"extract", "build">>, <<"build", "forecast">>,
      <<"forecast", "align">>, <<"align", "done">> }

\* C6: the steps of a run execute in the order load, extract, build,
\* forecast, align; a step that fails ends the run in the failed state with
\* its error, nothing executes after it, and the forecasting service is
\* called at most once.
C6_OrderedNoRetry ==
    [][ /\ pc # "failed"
        /\ pc' # pc => (<<pc, pc'>> \in StepOrder \/ pc' = "failed")
        /\ pc' = "failed" => (error = "none" /\ error' # "none")
        /\ pc' # "failed" => error' = "none"
        /\ calls' # calls => (pc = "forecast" /\ pc' # "forecast")
        /\ calls' <= 1 ]_vars

C6_Witness == pc = "failed" /\ error = "UpstreamError" /\ calls = 1

----------------------------------------------------------------------------
(* C7 *)

----------------------------------------------------------------------------
(* C8 *)

RECURSIVE RowsBefore(_, _)
\* Number of rows of the windows before the p-th.
RowsBefore(ws, p) ==
    IF p <= 1 THEN 0 ELSE RowsBefore(ws, p - 1) + Len(ws[p - 1])

\* table lists the windows of ws one after the other, in the order of ws.
ListsInOrder(table, ws) ==
    /\ Len(table) = RowsBefore(ws, Len(ws) + 1)
    /\ \A p \in DOMAIN ws :
          \A k \in DOMAIN ws[p] : table[RowsBefore(ws, p) + k] = ws[p][k]

\* The place in the series of a window row.
SeriesPos(r) ==
    CHOOSE j \in DOMAIN input_df :
        input_df[j][timestamp_column] = r[timestamp_column]

\* The rows of every window are consecutive series rows in series order,
\* and the p-th window belongs to the p-th offset.
InSeriesOrder(ws) ==
    /\ Len(ws) = Len(start_index)
    /\ \A p \in DOMAIN ws :
          /\ \A k \in DOMAIN ws[p] :
                ws[p][k][id_column] = IdOf(start_index[p])
          /\ \A k \in 1..(Len(ws[p]) - 1) :
                SeriesPos(ws[p][k + 1]) = SeriesPos(ws[p][k]) + 1

\* C8: the combined context table and the combined future table list the
\* windows in the order of start_index (every row of the window of an
\* earlier offset precedes every row of the window of a later one) and the
\* rows of a window keep series order.
C8_TablesInOffsetOrder ==
    Extracted =>
        /\ ListsInOrder(input_data, context_windows)
        /\ ListsInOrder(ground_truth_data, future_windows)
        /\ InSeriesOrder(context_windows)
        /\ InSeriesOrder(future_windows)

C8_Witness ==
    /\ Extracted
    /\ Len(start_index) = 2
    /\ start_index[1] > start_index[2]
    /\ Len(context_windows[1]) = 2 /\ Len(context_windows[2]) = 2
    /\ Len(future_windows[1]) >= 1 /\ Len(future_windows[2]) >= 1

----------------------------------------------------------------------------
(* C9 *)

\* C9: no step after loading changes the series (extraction tags copies,
\* never the series), and executing the extraction again on the same inputs
\* yields the same windows and tables.
C9_SeriesReadOnly ==
    [][ /\ pc # "load" => input_df' = input_df
        /\ (pc = "build" /\ pc' = "build") =>
              /\ context_windows' = context_windows
              /\ future_windows' = future_windows
              /\ input_data' = input_data
              /\ ground_truth_data' = ground_truth_data ]_vars

C9_Witness ==
    /\ pc = "done"
    /\ Len(input_data) >= 2
    /\ ground_truth_data # <<>>
    /\ aligned # <<>>
    /\ input_df = LoadSeries(csv)
    /\ \A k \in DOMAIN input_df : DOMAIN input_df[k] = AllColumns

----------------------------------------------------------------------------
(* C10 *)

\* C10: with pairwise distinct start offsets, the group of the combined
\* context table for id_<o> is precisely the context window of offset o,
\* with context_length rows, also when windows overlap in the series.
C10_GroupsRecoverWindows ==
    (Extracted /\ PairwiseDistinct) =>
        \A p \in DOMAIN start_index :
            /\ RowsOf(input_data, IdOf(start_index[p])) = context_windows[p]
            /\ Len(context_windows[p]) = context_length

\* C10 restricted to the offsets that lie inside the series.
C10_InBounds ==
    (Extracted /\ PairwiseDistinct /\ AllValid) =>
        \A p \in DOMAIN start_index :
            /\ RowsOf(input_data, IdOf(start_index[p])) = context_windows[p]
            /\ Len(context_windows[p]) = context_length

====
